---- MODULE Spec2Model ----
(***************************************************************************)
(* Supply ordering: the session quantity map, the order log in the hosted  *)
(* store, the cached catalog, the freshness reconciler (last_info_map and  *)
(* the left merge), the order submission with its notification batcher,    *)
(* and the SMTP configuration gate.                                         *)
(*                                                                          *)
(* One action is one Streamlit script run of src/app.py, from the top of   *)
(* the script to its end or to the st.rerun() that aborts it.              *)
(*                                                                          *)
(* Spec is the application on a two-item catalog. SpecBatch is the submit  *)
(* handler alone, started from every session map over a three-item         *)
(* catalog, for the notification batcher.                                  *)
(*                                                                          *)
(* Abstractions: ordered_at is a whole number of seconds; prices are whole *)
(* currency units (qty * price is exact in both); an absent / NaN cell is  *)
(* the number NA.                                                          *)
(***************************************************************************)
EXTENDS Integers, Sequences, FiniteSets, TLC

\* ------------------------------------------------------------------------
\* Bounds of the model
\* ------------------------------------------------------------------------
\* the greatest quantity the data editor returns
MaxQty == 1
\* orders are taken while the table holds fewer rows than this
MaxLog == 2
\* the latest second of the clock
MaxTime == 1
\* the greatest current_qty typed into the inventory editor
MaxStock == 1

\* ------------------------------------------------------------------------
\* Values
\* ------------------------------------------------------------------------
\* pd.NA / NaN / NaT in a numeric or datetime cell (all real values are >= 0)
NA == -1
\* Python None for a string value
None == "None"
\* cfg.get("port") on a config without the key
NoPort == -1

\* read_people(): the lines of people.txt
People == {"ann", "bob"}

\* alphabetical rank of the item names (string comparison of sort_values)
ItemRank(item) ==
    CASE item = "gauze" -> 1
      [] item = "tape" -> 2
      [] item = "wipes" -> 3

\* a catalog.csv without the sort_order column and with empty multiplier,
\* current_qty and price cells
File2 ==
    << [item |-> "gauze", product_number |-> "p1", multiplier |-> 1,
        items_per_order |-> 1, current_qty |-> 0, sort_order |-> NA, price |-> 3000],
       [item |-> "tape", product_number |-> "p2", multiplier |-> NA,
        items_per_order |-> 2, current_qty |-> NA, sort_order |-> NA, price |-> NA] >>

CatalogFiles == {File2}

\* catalogs for the batcher: every column present
FileA ==
    << [item |-> "gauze", product_number |-> "p1", multiplier |-> 1,
        items_per_order |-> 1, current_qty |-> 0, sort_order |-> 0, price |-> 3000],
       [item |-> "tape", product_number |-> "p2", multiplier |-> 2,
        items_per_order |-> 1, current_qty |-> 0, sort_order |-> 1, price |-> 3000],
       [item |-> "wipes", product_number |-> "p3", multiplier |-> 1,
        items_per_order |-> 2, current_qty |-> 1, sort_order |-> 2, price |-> 100] >>

\* no multiplier, items_per_order, current_qty and sort_order columns, one
\* empty price cell
FileB ==
    << [item |-> "gauze", product_number |-> "p1", multiplier |-> NA,
        items_per_order |-> NA, current_qty |-> NA, sort_order |-> NA, price |-> 1999],
       [item |-> "tape", product_number |-> "p2", multiplier |-> NA,
        items_per_order |-> NA, current_qty |-> NA, sort_order |-> NA, price |-> 3000],
       [item |-> "wipes", product_number |-> "p3", multiplier |-> NA,
        items_per_order |-> NA, current_qty |-> NA, sort_order |-> NA, price |-> NA] >>

\* prices at and above the batch ceiling
FileC ==
    << [item |-> "gauze", product_number |-> "p1", multiplier |-> 1,
        items_per_order |-> 1, current_qty |-> 0, sort_order |-> 0, price |-> 6000],
       [item |-> "tape", product_number |-> "p2", multiplier |-> 1,
        items_per_order |-> 1, current_qty |-> 0, sort_order |-> 1, price |-> 4999],
       [item |-> "wipes", product_number |-> "p3", multiplier |-> 1,
        items_per_order |-> 1, current_qty |-> 0, sort_order |-> 2, price |-> 1] >>

BatchFiles == {FileA, FileB, FileC}

\* the search box: "" shows every row, a product number shows its row,
\* "zzz" matches nothing
Searches == {"", "p1", "p2", "p3", "zzz"}

VARIABLES
    catalog_file,   \* data/catalog.csv: the records on disk
    catalog_cache,  \* st.cache_data entry of read_catalog()
    log,            \* rows of the orders_log table, in insertion order
    qty_map,        \* st.session_state["qty_map"], in dict (insertion) order
    ev              \* what the last script run did

vars == <<catalog_file, catalog_cache, log, qty_map, ev>>

\* ------------------------------------------------------------------------
\* Sequence helpers
\* ------------------------------------------------------------------------
Range(s) == {s[i] : i \in 1..Len(s)}

IsPrefix(s, t) == Len(s) <= Len(t) /\ SubSeq(t, 1, Len(s)) = s

RemoveAt(s, i) == SubSeq(s, 1, i - 1) \o SubSeq(s, i + 1, Len(s))

\* every arrangement of the rows of s
Perms(s) ==
    {[i \in 1..Len(s) |-> s[f[i]]] :
        f \in {g \in [1..Len(s) -> 1..Len(s)] :
                 \A a, b \in 1..Len(s) : a # b => g[a] # g[b]}}

\* ------------------------------------------------------------------------
\* data/catalog.py
\* ------------------------------------------------------------------------
\* pd.to_numeric(col, errors="coerce").fillna(d).astype(...)
to_numeric_fillna(v, d) == IF v = NA THEN d ELSE v

\* the body of read_catalog on the records of the file
read_catalog_body(file) ==
    [i \in 1..Len(file) |->
        [item |-> file[i].item,
         product_number |-> file[i].product_number,
         multiplier |-> to_numeric_fillna(file[i].multiplier, 1),
         items_per_order |-> to_numeric_fillna(file[i].items_per_order, 1),
         current_qty |-> to_numeric_fillna(file[i].current_qty, 0),
         sort_order |-> to_numeric_fillna(file[i].sort_order, i - 1),
         price |-> to_numeric_fillna(file[i].price, 0)]]

\* @st.cache_data read_catalog(): the cached frame once there is one
read_catalog(cache, file) ==
    IF cache.hit THEN cache.value ELSE read_catalog_body(file)

\* the cache entry after a call of read_catalog()
cache_after(cache, file) ==
    [hit |-> TRUE, value |-> read_catalog(cache, file)]

\* write_catalog(df): df.to_csv(CATALOG_PATH)
write_catalog(df) == df

\* catalog.loc[catalog["product_number"].astype(str) == str(pid)]
catalog_loc(catalog, pid) ==
    SelectSeq(catalog, LAMBDA r : r.product_number = pid)

\* ------------------------------------------------------------------------
\* db/supabase_client.py
\* ------------------------------------------------------------------------
SameKey(a, b) == a.item = b.item /\ a.product_number = b.product_number

\* datetime.now() taken once per row instead of once per call
append_log_rows_per_row_clock(order_df, orderer, now) ==
    [i \in 1..Len(order_df) |->
        [item |-> order_df[i].item,
         product_number |-> order_df[i].product_number,
         qty |-> order_df[i].qty,
         ordered_at |-> now + i - 1,
         orderer |-> orderer]]

\* the rows append_log builds: one per row of order_df, all stamped `now`
append_log_rows(order_df, orderer, now) ==
    [i \in 1..Len(order_df) |->
        [item |-> order_df[i].item,
         product_number |-> order_df[i].product_number,
         qty |-> order_df[i].qty,
         ordered_at |-> now,
         orderer |-> orderer]]

\* an upsert on (item, product_number) instead of an insert
store_upsert(table, rows) ==
    SelectSeq(table, LAMBDA e : \A i \in 1..Len(rows) : ~SameKey(e, rows[i])) \o rows

\* an insert that skips a row the table already holds
store_insert_distinct(table, rows) ==
    table \o SelectSeq(rows, LAMBDA r : \A i \in 1..Len(table) : table[i] # r)

\* supabase.table("orders_log").insert(rows).execute()
store_insert(table, rows) == table \o rows

IsDescending(s) == \A i \in 1..(Len(s) - 1) : s[i].ordered_at >= s[i + 1].ordered_at

IsAscending(s) == \A i \in 1..(Len(s) - 1) : s[i].ordered_at <= s[i + 1].ordered_at

\* read_log(): select * order by ordered_at desc. The store leaves the order
\* of rows with equal ordered_at open: every descending arrangement is a
\* possible answer.
read_log(table) == {f \in Perms(table) : IsDescending(f)}

\* logs.sort_values("ordered_at"): ascending; the default sort kind is not
\* stable, so rows with equal ordered_at come out in any order
sort_values(frame) == {f \in Perms(frame) : IsAscending(f)}

RECURSIVE SelectIdx(_, _, _)
\* the rows of s at the indexes of keep, in the order of s
SelectIdx(s, keep, i) ==
    IF i > Len(s) THEN <<>>
    ELSE (IF i \in keep THEN <<s[i]>> ELSE <<>>) \o SelectIdx(s, keep, i + 1)

\* .head(1) instead of .tail(1): the first row of each group
groupby_head(frame) ==
    SelectIdx(frame,
              {i \in 1..Len(frame) :
                  \A j \in 1..(i - 1) : ~SameKey(frame[i], frame[j])},
              1)

\* .groupby(["item", "product_number"]).tail(1): the last row of each group,
\* in frame order
groupby_tail(frame) ==
    SelectIdx(frame,
              {i \in 1..Len(frame) :
                  \A j \in (i + 1)..Len(frame) : ~SameKey(frame[i], frame[j])},
              1)

\* the rename and column selection at the end of last_info_map
rename_last(tail) ==
    [i \in 1..Len(tail) |->
        [item |-> tail[i].item,
         product_number |-> tail[i].product_number,
         last_ordered_at |-> tail[i].ordered_at,
         last_qty |-> tail[i].qty,
         last_orderer |-> tail[i].orderer]]

\* last_info_map(): every frame the call can return for the stored table
last_info_map(table) ==
    {rename_last(groupby_tail(sorted)) :
        sorted \in UNION {sort_values(logs) : logs \in read_log(table)}}

\* ------------------------------------------------------------------------
\* app.py: the Create Order table
\* ------------------------------------------------------------------------
MergedRow(c, last_ordered_at, last_qty, last_orderer) ==
    [item |-> c.item, product_number |-> c.product_number,
     multiplier |-> c.multiplier, items_per_order |-> c.items_per_order,
     current_qty |-> c.current_qty, sort_order |-> c.sort_order, price |-> c.price,
     last_ordered_at |-> last_ordered_at, last_qty |-> last_qty,
     last_orderer |-> last_orderer]

\* the rows a left merge gives for one catalog row
merge_row(c, last_map) ==
    LET m == SelectSeq(last_map, LAMBDA r : SameKey(r, c))
    IN  IF m = <<>> THEN << MergedRow(c, NA, NA, None) >>
        ELSE [k \in 1..Len(m) |->
                MergedRow(c, m[k].last_ordered_at, m[k].last_qty, m[k].last_orderer)]

RECURSIVE merge_from(_, _, _)
merge_from(catalog, last_map, i) ==
    IF i > Len(catalog) THEN <<>>
    ELSE merge_row(catalog[i], last_map) \o merge_from(catalog, last_map, i + 1)

\* catalog.merge(last_map, on=["item", "product_number"], how="left")
merge(catalog, last_map) == merge_from(catalog, last_map, 1)

\* a sorts strictly before b under
\* sort_values(["last_ordered_at", "item"], ascending=[False, True], na_position="last")
Before(a, b) ==
    \/ a.last_ordered_at # NA /\ (b.last_ordered_at = NA \/ a.last_ordered_at > b.last_ordered_at)
    \/ a.last_ordered_at = b.last_ordered_at /\ ItemRank(a.item) < ItemRank(b.item)

RECURSIVE sort_table(_)
\* the stable multi-column sort of the table
sort_table(t) ==
    IF t = <<>> THEN <<>>
    ELSE LET firsts == {i \in 1..Len(t) : \A j \in 1..Len(t) : ~Before(t[j], t[i])}
             i == CHOOSE k \in firsts : \A j \in firsts : k <= j
         IN  <<t[i]>> \o sort_table(RemoveAt(t, i))

\* the search mask: str.contains on item or product_number
search_mask(search, row) == search = "" \/ row.product_number = search

\* the product numbers of the rows the data editor shows, in table order
edited_pids(catalog, last_map, search) ==
    LET shown == SelectSeq(sort_table(merge(catalog, last_map)),
                           LAMBDA r : search_mask(search, r))
    IN  [i \in 1..Len(shown) |-> shown[i].product_number]

\* ------------------------------------------------------------------------
\* app.py: the session quantity map
\* ------------------------------------------------------------------------
Keys(m) == {m[i].pid : i \in 1..Len(m)}

\* qty_map.get(pid): NA stands for None
qty_get(m, pid) ==
    IF pid \in Keys(m) THEN (CHOOSE e \in Range(m) : e.pid = pid).qty ELSE NA

\* qty_map[pid] = q: in place for a known key, at the end for a new one
qty_set(m, pid, q) ==
    IF pid \in Keys(m)
    THEN [i \in 1..Len(m) |-> IF m[i].pid = pid THEN [pid |-> pid, qty |-> q] ELSE m[i]]
    ELSE Append(m, [pid |-> pid, qty |-> q])

RECURSIVE sync_loop(_, _, _)
\* for _, r in edited.iterrows(): if qty_map.get(pid) != new_qty: qty_map[pid] = new_qty
sync_loop(m, pids, new_qty) ==
    IF pids = <<>> THEN m
    ELSE LET pid == Head(pids)
             m2 == IF qty_get(m, pid) # new_qty[pid] THEN qty_set(m, pid, new_qty[pid]) ELSE m
         IN  sync_loop(m2, Tail(pids), new_qty)

\* qty >= 0 instead of qty > 0
is_selected_or_zero(qty) == qty >= 0

\* qty > 0
is_selected(qty) == qty > 0

RECURSIVE selected_items(_, _)
\* the preview rows and the rows built at submit: one per entry of the map
\* with qty > 0 and a catalog row of that product number
selected_items(m, catalog) ==
    IF m = <<>> THEN <<>>
    ELSE LET e == Head(m)
             row == catalog_loc(catalog, e.pid)
         IN  (IF is_selected(e.qty) /\ row # <<>>
              THEN << [item |-> row[1].item, product_number |-> e.pid, qty |-> e.qty] >>
              ELSE <<>>)
             \o selected_items(Tail(m), catalog)

\* ------------------------------------------------------------------------
\* services/email_service.py
\* ------------------------------------------------------------------------
\* st.secrets["smtp"]: a string key that is not set is None, the port key
\* that is not set is NoPort, the password is a sequence of characters
\* (empty when the key is not set)
FullSecrets ==
    [section |-> TRUE, host |-> "smtp.example.org", port |-> 465, user |-> "orders",
     password |-> <<"p", " ", "w">>, from |-> "orders@example.org"]

SecretsSet ==
    { FullSecrets,
      [FullSecrets EXCEPT !.host = None],
      [FullSecrets EXCEPT !.port = NoPort],
      [FullSecrets EXCEPT !.port = 0],
      [FullSecrets EXCEPT !.user = None],
      [FullSecrets EXCEPT !.password = <<>>],
      [FullSecrets EXCEPT !.password = <<" ", " ">>],
      [FullSecrets EXCEPT !.from = None],
      [FullSecrets EXCEPT !.section = FALSE] }

\* int(smtp_config.get("port", 587))
port_of(secrets) == IF secrets.port = NoPort THEN 587 ELSE secrets.port

\* get_smtp_config(): {} when st.secrets["smtp"] raises (every .get of {}
\* is None: no host, no port, no password)
get_smtp_config(secrets) ==
    IF ~secrets.section
    THEN [host |-> None, port |-> NoPort, username |-> None, password |-> <<>>, from |-> None]
    ELSE [host |-> secrets.host,
          port |-> port_of(secrets),
          username |-> secrets.user,
          password |-> SelectSeq(secrets.password, LAMBDA c : c # " "),
          from |-> secrets.from]

\* truth value of a string-or-None, of a port and of a password
Truthy(v) == v # None /\ v # ""

PortTruthy(p) == p # NoPort /\ p # 0

\* "from" left out of the required list
smtp_ok_without_from(secrets) ==
    LET cfg == get_smtp_config(secrets)
    IN  /\ Truthy(cfg.host)
        /\ PortTruthy(cfg.port)
        /\ Truthy(cfg.username)
        /\ cfg.password # <<>>

\* smtp_ok(): all(cfg.get(k) for k in required)
smtp_ok(secrets) ==
    LET cfg == get_smtp_config(secrets)
    IN  /\ Truthy(cfg.host)
        /\ PortTruthy(cfg.port)
        /\ Truthy(cfg.username)
        /\ cfg.password # <<>>
        /\ Truthy(cfg.from)

\* the email column of emails.csv as read_emails() returns it
Rosters == { {}, {"a@x.com"}, {"front desk"} }

\* "@" in e
HasAt(e) == e = "a@x.com"

\* all_recipients(emails_df): the roster addresses with an "@" (no "to" key
\* is set)
all_recipients(roster) == {e \in roster : HasAt(e)}

\* ------------------------------------------------------------------------
\* app.py: the notification batcher
\* ------------------------------------------------------------------------
\* the fixed ceiling of the batcher
Ceiling == 4999

\* float(row.iloc[0].get("price", 0) or 0) of the catalog row of pid
price_of(catalog, pid) == catalog_loc(catalog, pid)[1].price

\* total = qty * price
line_total(catalog, line) == line.qty * price_of(catalog, line.product_number)

\* the test without `and current_group`
closes_group_even_if_empty(running_total, total, current_group) ==
    running_total + total > Ceiling

\* if running_total + total > 4999 and current_group
closes_group(running_total, total, current_group) ==
    running_total + total > Ceiling /\ current_group # <<>>

\* if current_group: product_groups.append((current_group, running_total))
final_groups(groups, current_group, running_total) ==
    IF current_group # <<>>
    THEN Append(groups, [pids |-> current_group, total |-> running_total])
    ELSE groups

RECURSIVE batch_loop(_, _, _, _, _, _)
\* for _, r in order_df.iterrows(): ... of the batcher, from row i on
batch_loop(order_df, catalog, i, groups, current_group, running_total) ==
    IF i > Len(order_df) THEN final_groups(groups, current_group, running_total)
    ELSE LET total == line_total(catalog, order_df[i])
             pid == order_df[i].product_number
         IN  IF closes_group(running_total, total, current_group)
             THEN batch_loop(order_df, catalog, i + 1,
                             Append(groups, [pids |-> current_group, total |-> running_total]),
                             <<pid>>, total)
             ELSE batch_loop(order_df, catalog, i + 1, groups,
                             Append(current_group, pid), running_total + total)

\* product_groups of a submitted order
product_groups(order_df, catalog) == batch_loop(order_df, catalog, 1, <<>>, <<>>, 0)

\* ------------------------------------------------------------------------
\* The script runs
\* ------------------------------------------------------------------------
\* catalog = read_catalog() at the top of the run
Catalog == read_catalog(catalog_cache, catalog_file)

\* the latest ordered_at in the table (the clock does not run backwards)
LastTime == IF log = <<>> THEN 0
            ELSE CHOOSE t \in {log[i].ordered_at : i \in 1..Len(log)} :
                    \A i \in 1..Len(log) : log[i].ordered_at <= t

\* the qty column the editor shows: qty_map mapped on product_number, fillna(0)
shown_qty(m, pids) ==
    [pid \in Range(pids) |-> IF qty_get(m, pid) = NA THEN 0 ELSE qty_get(m, pid)]

\* a run gets past the update loop (rerun_needed stays False) for some search
\* text when the editor holds no pending change
ButtonReached ==
    /\ Catalog # <<>>
    /\ {search \in Searches :
            \E last_map \in last_info_map(log) :
               LET pids == edited_pids(Catalog, last_map, search)
               IN  sync_loop(qty_map, pids, shown_qty(qty_map, pids)) = qty_map} # {}

Init ==
    /\ catalog_file \in CatalogFiles
    /\ catalog_cache = [hit |-> FALSE, value |-> <<>>]
    /\ log = <<>>
    /\ qty_map = <<>>
    /\ ev = [op |-> "init"]

\* a run whose data editor returns new_qty for the shown rows: the table is
\* built (last_info_map, merge, sort, search) and the update loop stores the
\* quantities (app.py 165-245)
EditOrder ==
    /\ Catalog # <<>>
    /\ \E search \in Searches, last_map \in last_info_map(log) :
          LET pids == edited_pids(Catalog, last_map, search)
          IN  \E new_qty \in [Range(pids) -> 0..MaxQty] :
                 /\ qty_map' = sync_loop(qty_map, pids, new_qty)
                 /\ ev' = [op |-> "edit", table |-> merge(Catalog, last_map)]
    /\ catalog_cache' = cache_after(catalog_cache, catalog_file)
    /\ UNCHANGED <<catalog_file, log>>

\* a Clear Current Order button that reruns without resetting the map
ClearOrderKeeps ==
    /\ selected_items(qty_map, Catalog) # <<>>
    /\ qty_map' = qty_map
    /\ ev' = [op |-> "clear"]
    /\ catalog_cache' = cache_after(catalog_cache, catalog_file)
    /\ UNCHANGED <<catalog_file, log>>

\* the Clear Current Order button (app.py 120-129)
ClearOrder ==
    /\ selected_items(qty_map, Catalog) # <<>>
    /\ qty_map' = <<>>
    /\ ev' = [op |-> "clear"]
    /\ catalog_cache' = cache_after(catalog_cache, catalog_file)
    /\ UNCHANGED <<catalog_file, log>>

\* the clear of the session placed outside the `if not order_df.empty`
SubmitEmptyClears ==
    /\ ButtonReached
    /\ selected_items(qty_map, Catalog) = <<>>
    /\ qty_map' = <<>>
    /\ ev' = [op |-> "submit", outcome |-> "empty", rows |-> <<>>, email |-> "none"]
    /\ catalog_cache' = cache_after(catalog_cache, catalog_file)
    /\ UNCHANGED <<catalog_file, log>>

\* Generate & Log Order with no selected line: order_df is empty and the
\* handler does nothing (app.py 248-266)
SubmitEmpty ==
    /\ ButtonReached
    /\ selected_items(qty_map, Catalog) = <<>>
    /\ ev' = [op |-> "submit", outcome |-> "empty", rows |-> <<>>, email |-> "none"]
    /\ catalog_cache' = cache_after(catalog_cache, catalog_file)
    /\ UNCHANGED <<catalog_file, log, qty_map>>

\* Generate & Log Order when the insert raises: the run ends with the
\* exception at app.py 267
SubmitStoreError ==
    /\ ButtonReached
    /\ selected_items(qty_map, Catalog) # <<>>
    /\ ev' = [op |-> "submit", outcome |-> "store_error",
              rows |-> selected_items(qty_map, Catalog), email |-> "none"]
    /\ catalog_cache' = cache_after(catalog_cache, catalog_file)
    /\ UNCHANGED <<catalog_file, log, qty_map>>

\* what the email step of the handler does (app.py 269-337)
email_step(secrets, roster, send_ok) ==
    IF ~smtp_ok(secrets) THEN "not_configured"
    ELSE IF all_recipients(roster) = {} THEN "no_recipients"
    ELSE IF send_ok THEN "sent"
    ELSE "failed"

\* the secrets the handler reads and what its email step then does, for every
\* roster and every answer of the mail server
EmailOutcomes ==
    {[secrets |-> secrets, email |-> email_step(secrets, roster, send_ok)] :
        secrets \in SecretsSet, roster \in Rosters, send_ok \in BOOLEAN}

\* the clear placed inside the try block: skipped when send_email raises
qty_map_kept_on_failure(m, email) == IF email = "failed" THEN m ELSE <<>>

\* st.session_state["qty_map"] = {} at the end of the handler (app.py 339)
qty_map_after_submit(m, email) == <<>>

\* Generate & Log Order with selected lines and a store that takes the
\* insert (app.py 248-340); taken while the table holds fewer than MaxLog rows
SubmitOrder ==
    /\ ButtonReached
    /\ LET rows == selected_items(qty_map, Catalog)
       IN  /\ rows # <<>>
           /\ Len(log) < MaxLog
           /\ \E orderer \in People, now \in LastTime..MaxTime :
                 /\ log' = store_insert(log, append_log_rows(rows, orderer, now))
                 /\ \E out \in EmailOutcomes :
                       /\ ev' = [op |-> "submit", outcome |-> "logged", rows |-> rows,
                                 orderer |-> orderer, when |-> now, secrets |-> out.secrets,
                                 email |-> out.email,
                                 groups |-> IF out.email \in {"sent", "failed"}
                                            THEN product_groups(rows, Catalog) ELSE <<>>]
                       /\ qty_map' = qty_map_after_submit(qty_map, out.email)
    /\ catalog_cache' = cache_after(catalog_cache, catalog_file)
    /\ UNCHANGED catalog_file

\* Save inventory changes: the editor holds the catalog with one current_qty
\* cell changed (app.py 345-367)
SaveInventory ==
    /\ ButtonReached
    /\ \E i \in 1..Len(Catalog), v \in 0..MaxStock :
          LET edited == [Catalog EXCEPT ![i].current_qty = v]
          IN  /\ catalog_file' = write_catalog(edited)
              /\ ev' = [op |-> "save", written |-> edited]
    /\ catalog_cache' = cache_after(catalog_cache, catalog_file)
    /\ UNCHANGED <<log, qty_map>>

\* every session map over three product numbers: any key order (rows come in
\* by search), any quantity of the editor
SessionMaps ==
    {m \in UNION {[1..n -> [pid : {"p1", "p2", "p3"}, qty : 0..MaxQty]] : n \in 0..3} :
        \A i, j \in 1..Len(m) : i # j => m[i].pid # m[j].pid}

\* the batcher on its own: a three-item catalog and a composed session
InitBatch ==
    /\ catalog_file \in BatchFiles
    /\ catalog_cache = [hit |-> FALSE, value |-> <<>>]
    /\ log = <<>>
    /\ qty_map \in SessionMaps
    /\ ev = [op |-> "init"]

NextBatch ==
    \/ SubmitEmpty
    \/ SubmitStoreError
    \/ SubmitOrder

SpecBatch == InitBatch /\ [][NextBatch]_vars

Next ==
    \/ EditOrder
    \/ ClearOrder
    \/ SubmitEmpty
    \/ SubmitStoreError
    \/ SubmitOrder
    \/ SaveInventory

Spec == Init /\ [][Next]_vars

\* ------------------------------------------------------------------------
\* Two sessions submitting at once
\* ------------------------------------------------------------------------
\* Each browser session runs the script on its own with its own
\* st.session_state; the catalog cache and the orders_log table are shared.
\* In this specification qty_map and ev hold one value per session: qty_map[s]
\* is the session's map and ev[s] is the point its handler has reached with
\* the handler's local values.
Sessions == {"s1", "s2"}

\* the run of a session with map m gets past the update loop for some search
\* text (rerun_needed stays False)
reached(m) ==
    /\ Catalog # <<>>
    /\ {search \in Searches :
            \E last_map \in last_info_map(log) :
               LET pids == edited_pids(Catalog, last_map, search)
               IN  sync_loop(m, pids, shown_qty(m, pids)) = m} # {}

\* the maps of a session that has composed an order on the two-item catalog
ComposedMaps ==
    {m \in SessionMaps : Keys(m) \subseteq {"p1", "p2"} /\ \E i \in 1..Len(m) : m[i].qty > 0}

\* the latest time any session has read from the clock
ConcClock ==
    LET times == {0} \cup {log[i].ordered_at : i \in 1..Len(log)}
                     \cup {ev[s].when : s \in {t \in Sessions : ev[t].pc = "stamped"}}
    IN  CHOOSE t \in times : \A u \in times : u <= t

InitConc ==
    /\ catalog_file \in CatalogFiles
    /\ catalog_cache = [hit |-> FALSE, value |-> <<>>]
    /\ log = <<>>
    /\ qty_map \in [Sessions -> ComposedMaps]
    /\ ev = [s \in Sessions |-> [pc |-> "ready"]]

\* the button handler builds order_df from the session's map (app.py 248-264)
ConcBuild(s) ==
    /\ ev[s].pc = "ready"
    /\ reached(qty_map[s])
    /\ LET rows == selected_items(qty_map[s], Catalog)
       IN  /\ rows # <<>>
           /\ \E orderer \in People :
                 ev' = [ev EXCEPT ![s] = [pc |-> "built", rows |-> rows, orderer |-> orderer]]
    /\ catalog_cache' = cache_after(catalog_cache, catalog_file)
    /\ UNCHANGED <<catalog_file, log, qty_map>>

\* append_log reads the clock (supabase_client.py 27)
ConcStamp(s) ==
    /\ ev[s].pc = "built"
    /\ \E now \in ConcClock..MaxTime :
          ev' = [ev EXCEPT ![s] = [pc |-> "stamped", rows |-> ev[s].rows,
                                   orderer |-> ev[s].orderer, when |-> now]]
    /\ UNCHANGED <<catalog_file, catalog_cache, log, qty_map>>

\* append_log sends its rows in one insert, which the store takes
\* (supabase_client.py 29-41)
ConcInsert(s) ==
    /\ ev[s].pc = "stamped"
    /\ log' = store_insert(log, append_log_rows(ev[s].rows, ev[s].orderer, ev[s].when))
    /\ ev' = [ev EXCEPT ![s].pc = "inserted"]
    /\ UNCHANGED <<catalog_file, catalog_cache, qty_map>>

\* the insert raises: the run of the session ends with the exception
ConcInsertError(s) ==
    /\ ev[s].pc = "stamped"
    /\ ev' = [ev EXCEPT ![s].pc = "error"]
    /\ UNCHANGED <<catalog_file, catalog_cache, log, qty_map>>

\* the rest of the handler: the email step and the reset of the session's map
\* (app.py 269-340)
ConcEmailAndClear(s) ==
    /\ ev[s].pc = "inserted"
    /\ \E email \in {out.email : out \in EmailOutcomes} :
          /\ ev' = [ev EXCEPT ![s] = [pc |-> "done", rows |-> ev[s].rows,
                                      orderer |-> ev[s].orderer, when |-> ev[s].when,
                                      email |-> email]]
          /\ qty_map' = [qty_map EXCEPT ![s] = qty_map_after_submit(qty_map[s], email)]
    /\ UNCHANGED <<catalog_file, catalog_cache, log>>

NextConc ==
    \/ \E s \in Sessions : ConcBuild(s)
    \/ \E s \in Sessions : ConcStamp(s)
    \/ \E s \in Sessions : ConcInsert(s)
    \/ \E s \in Sessions : ConcInsertError(s)
    \/ \E s \in Sessions : ConcEmailAndClear(s)

SpecConc == InitConc /\ [][NextConc]_vars

\* ------------------------------------------------------------------------
\* Properties
\* ------------------------------------------------------------------------
CatalogPids == {Catalog[i].product_number : i \in 1..Len(Catalog)}

\* the rows a run added to the table
Added == SubSeq(log', Len(log) + 1, Len(log'))

\* C1: the order log is append-only: every step keeps every logged entry, in
\* its place and with the same item, product_number, qty, ordered_at and
\* orderer, whatever the step is and however the notification ends.
C1_AppendOnly == [][IsPrefix(log, log')]_vars

\* a failed notification after a submission that added to a non-empty log
C1_Witness ==
    /\ ev.op = "submit" /\ ev.outcome = "logged" /\ ev.email = "failed"
    /\ Len(log) > Len(ev.rows)

\* no entry of the session map has a positive quantity and a product number
\* of the catalog
NoSelectedLine ==
    \A i \in 1..Len(qty_map) :
        qty_map[i].qty <= 0 \/ qty_map[i].pid \notin CatalogPids

\* C2: a submission with no selected line (empty map, only zero quantities,
\* or only unknown product numbers) leaves the log and the session map as
\* they were and sends no notification.
C2_EmptySubmitRejected ==
    [][(ev'.op = "submit" /\ NoSelectedLine)
         => (log' = log /\ qty_map' = qty_map /\ ev'.outcome = "empty" /\ ev'.email = "none")]_vars

\* an empty submission from a session map that holds only zero quantities
C2_Witness ==
    /\ ev.op = "submit" /\ ev.outcome = "empty"
    /\ qty_map # <<>>
    /\ \A i \in 1..Len(qty_map) : qty_map[i].qty = 0

\* C3: a successful submission appends exactly one entry per selected line,
\* in line order, with the line's item, product_number and qty and the
\* submitting orderer, and all of them carry one ordered_at.
C3_OneEntryPerLine ==
    [][(ev'.op = "submit" /\ ev'.outcome = "logged")
         => LET lines == selected_items(qty_map, Catalog)
            IN  /\ IsPrefix(log, log')
                /\ Len(Added) = Len(lines)
                /\ Len(lines) > 0
                /\ \A i \in 1..Len(lines) :
                      /\ Added[i].item = lines[i].item
                      /\ Added[i].product_number = lines[i].product_number
                      /\ Added[i].qty = lines[i].qty
                      /\ Added[i].orderer = ev'.orderer
                      /\ Added[i].ordered_at = Added[1].ordered_at]_vars

\* a logged submission of two lines
C3_Witness ==
    /\ ev.op = "submit" /\ ev.outcome = "logged"
    /\ Len(ev.rows) = 2

\* C4: whenever a run appends to the log, the session map is empty at the
\* end of that run, whether the notification was sent, failed or skipped.
C4_ClearedAfterAppend == [][log' # log => qty_map' = <<>>]_vars

\* a logged submission whose notification was skipped for lack of recipients
C4_Witness ==
    /\ ev.op = "submit" /\ ev.outcome = "logged" /\ ev.email = "no_recipients"
    /\ qty_map = <<>>

\* C5: the selected lines hold no quantity <= 0 and no product number that
\* is not in the catalog, and so does every entry of the log.
C5_SelectedLinesValid ==
    LET lines == selected_items(qty_map, Catalog)
    IN  /\ \A i \in 1..Len(lines) :
              lines[i].qty > 0 /\ lines[i].product_number \in CatalogPids
        /\ \A i \in 1..Len(log) :
              log[i].qty > 0 /\ log[i].product_number \in CatalogPids

\* a session map with a zero entry next to a selected line, after an order
\* was logged
C5_Witness ==
    /\ \E i \in 1..Len(qty_map) : qty_map[i].qty = 0
    /\ selected_items(qty_map, Catalog) # <<>>
    /\ log # <<>>

\* the positions in the table of the entries with the key of row r
KeyEntries(r) == {i \in 1..Len(log) : SameKey(log[i], r)}

\* those of them that carry the latest ordered_at of the key
LatestEntries(r) ==
    {i \in KeyEntries(r) : \A j \in KeyEntries(r) : log[j].ordered_at <= log[i].ordered_at}

\* the greatest position of a non-empty set of positions
LastOf(S) == CHOOSE i \in S : \A j \in S : j <= i

\* C6: when two or more entries of a key share its latest ordered_at, the
\* freshness row of the key shows the one of them that was inserted last.
C6_TieLastInserted ==
    ev.op = "edit" =>
        \A k \in 1..Len(ev.table) :
            Cardinality(LatestEntries(ev.table[k])) >= 2 =>
                LET e == log[LastOf(LatestEntries(ev.table[k]))]
                IN  /\ ev.table[k].last_ordered_at = e.ordered_at
                    /\ ev.table[k].last_qty = e.qty
                    /\ ev.table[k].last_orderer = e.orderer

\* C7: the merged table has exactly one row per catalog row, in catalog
\* order; its last_ordered_at is absent exactly when the log has no entry of
\* the row's (item, product_number), and is otherwise the greatest ordered_at
\* of those entries. With an empty log every row is absent.
C7_OneFreshnessRowPerItem ==
    ev.op = "edit" =>
        /\ Len(ev.table) = Len(Catalog)
        /\ \A k \in 1..Len(ev.table) :
              /\ SameKey(ev.table[k], Catalog[k])
              /\ (ev.table[k].last_ordered_at = NA) <=> (KeyEntries(Catalog[k]) = {})
              /\ KeyEntries(Catalog[k]) # {} =>
                    ev.table[k].last_ordered_at
                       = log[LastOf(LatestEntries(Catalog[k]))].ordered_at

\* a table with a never-ordered item next to an item ordered at two
\* different times
C7_Witness ==
    /\ ev.op = "edit"
    /\ \E k \in 1..Len(ev.table) : ev.table[k].last_ordered_at = NA
    /\ \E k \in 1..Len(ev.table) :
          \E i, j \in KeyEntries(ev.table[k]) : log[i].ordered_at < log[j].ordered_at

RECURSIVE SumRange(_, _, _)
\* c[a] + ... + c[b]
SumRange(c, a, b) == IF a > b THEN 0 ELSE c[a] + SumRange(c, a + 1, b)

RECURSIVE LinesBefore(_, _)
\* the number of lines in the first k groups
LinesBefore(g, k) == IF k = 0 THEN 0 ELSE LinesBefore(g, k - 1) + Len(g[k].pids)

RECURSIVE Flatten(_)
\* the product numbers of the groups, one after the other
Flatten(g) == IF g = <<>> THEN <<>> ELSE Head(g).pids \o Flatten(Tail(g))

\* the run logged an order and built the notification
Batched == ev.op = "submit" /\ ev.outcome = "logged" /\ ev.email \in {"sent", "failed"}

\* qty x catalog price of each submitted line
Costs ==
    [i \in 1..Len(ev.rows) |->
        ev.rows[i].qty
          * (CHOOSE r \in Range(Catalog) : r.product_number = ev.rows[i].product_number).price]

\* C8: the groups of the notification are the greedy grouping under the
\* ceiling 4999: read one after the other they are the submitted lines, none
\* is empty, each subtotal is the sum of its lines' costs, a group over the
\* ceiling is a single line, a group ends exactly where the next line would
\* lift its subtotal above the ceiling, and costs [3000, 3000, 100] give
\* [[line1], [line2, line3]] with subtotals [3000, 3100].
C8_GreedyGroups ==
    Batched =>
        LET g == ev.groups
            first(k) == LinesBefore(g, k - 1) + 1
        IN  /\ Flatten(g) = [i \in 1..Len(ev.rows) |-> ev.rows[i].product_number]
            /\ \A k \in 1..Len(g) :
                  /\ g[k].pids # <<>>
                  /\ g[k].total = SumRange(Costs, first(k), first(k) + Len(g[k].pids) - 1)
                  /\ g[k].total <= Ceiling \/ Len(g[k].pids) = 1
            /\ \A k \in 1..(Len(g) - 1) : g[k].total + Costs[first(k + 1)] > Ceiling
            /\ Costs = <<3000, 3000, 100>> =>
                  g = << [pids |-> <<ev.rows[1].product_number>>, total |-> 3000],
                         [pids |-> <<ev.rows[2].product_number, ev.rows[3].product_number>>,
                          total |-> 3100] >>

\* a notification for lines costing 3000, 3000 and 100
C8_Witness == Batched /\ Costs = <<3000, 3000, 100>>

\* the smtp section, or one of the keys host, port, user, password, from, is
\* not set
RequiredAbsent(secrets) ==
    \/ ~secrets.section
    \/ secrets.host = None
    \/ secrets.port = NoPort
    \/ secrets.user = None
    \/ secrets.password = <<>>
    \/ secrets.from = None

\* the same without the port
AbsentOtherThanPort(secrets) ==
    \/ ~secrets.section
    \/ secrets.host = None
    \/ secrets.user = None
    \/ secrets.password = <<>>
    \/ secrets.from = None

\* C9 as stated: with any one of host, port, username, password, from absent
\* the transport counts as not configured and a logged submission sends no
\* email.
C9_AnyAbsentFieldDisables ==
    (ev.op = "submit" /\ ev.outcome = "logged" /\ RequiredAbsent(ev.secrets))
        => ev.email = "not_configured"

\* C9 amended: with host, username, password or from absent (or no smtp
\* section) the transport counts as not configured: the email step is
\* skipped, and the submission has still appended one entry per selected
\* line. An absent port is read as 587 and does not by itself mark the
\* transport not configured.
C9_AbsentFieldDisables ==
    [][(ev'.op = "submit" /\ ev'.outcome = "logged")
         => /\ AbsentOtherThanPort(ev'.secrets)
                 => /\ ev'.email = "not_configured"
                    /\ ev'.groups = <<>>
                    /\ IsPrefix(log, log')
                    /\ Len(Added) = Len(selected_items(qty_map, Catalog))
                    /\ Len(Added) > 0
            /\ (ev'.secrets.port = NoPort /\ ~AbsentOtherThanPort(ev'.secrets))
                 => ev'.email # "not_configured"]_vars

\* a logged submission read with no "from" key: the email step was skipped
C9_Witness ==
    /\ ev.op = "submit" /\ ev.outcome = "logged"
    /\ ev.secrets.section /\ ev.secrets.from = None
    /\ ev.email = "not_configured"
    /\ log # <<>>

\* C10: after write_catalog(records) the next read_catalog() of the process
\* returns the (item, product_number) pairs and the multiplier,
\* items_per_order, current_qty and price of the records written.
C10_RoundTrip ==
    ev.op = "save" =>
        LET back == read_catalog(catalog_cache, catalog_file)
        IN  /\ Len(back) = Len(ev.written)
            /\ \A i \in 1..Len(back) :
                  /\ back[i].item = ev.written[i].item
                  /\ back[i].product_number = ev.written[i].product_number
                  /\ back[i].multiplier = ev.written[i].multiplier
                  /\ back[i].items_per_order = ev.written[i].items_per_order
                  /\ back[i].current_qty = ev.written[i].current_qty
                  /\ back[i].price = ev.written[i].price


\* the number of rows of a table equal to e
Count(table, e) == Cardinality({i \in 1..Len(table) : table[i] = e})

\* the sessions whose insert the store has taken
Logged == {s \in Sessions : ev[s].pc \in {"inserted", "done"}}

\* the log entry of line i of the submission of session s
Entry(s, i) ==
    [item |-> ev[s].rows[i].item,
     product_number |-> ev[s].rows[i].product_number,
     qty |-> ev[s].rows[i].qty,
     ordered_at |-> ev[s].when,
     orderer |-> ev[s].orderer]

\* the lines of the submissions the store has taken
LoggedLines == {<<s, i>> \in Sessions \X (1..3) : s \in Logged /\ i <= Len(ev[s].rows)}

\* C11: when two sessions each submit a non-empty order, under every
\* interleaving of their steps the log holds every entry of every submission
\* whose insert the store has taken, as many times as it was submitted, and
\* nothing else: no entry is lost, overwritten or deduplicated, even when the
\* two orders are identical and stamped in the same second. A session that
\* has run its handler to the end has an empty map.
C11_BothLogged ==
    /\ \A l \in LoggedLines :
          Count(log, Entry(l[1], l[2]))
             = Cardinality({k \in LoggedLines : Entry(k[1], k[2]) = Entry(l[1], l[2])})
    /\ Len(log) = Cardinality(LoggedLines)
    /\ \A s \in Sessions : ev[s].pc = "done" => qty_map[s] = <<>>

\* both sessions have finished identical orders stamped in the same second by
\* the same orderer
C11_Witness ==
    /\ \A s \in Sessions : ev[s].pc = "done"
    /\ ev["s1"].rows = ev["s2"].rows
    /\ ev["s1"].orderer = ev["s2"].orderer
    /\ ev["s1"].when = ev["s2"].when
    /\ Len(log) = 2 * Len(ev["s1"].rows)

\* the maps an edit run can leave in the session: the update loop over the
\* rows the editor shows, for every search text and every quantity the editor
\* can return (app.py 165-245)
EditResults ==
    UNION {UNION {{sync_loop(qty_map, edited_pids(Catalog, last_map, search), new_qty) :
                      new_qty \in [Range(edited_pids(Catalog, last_map, search)) -> 0..MaxQty]} :
                  last_map \in last_info_map(log)} :
           search \in Searches}

HasPositive(m) == \E i \in 1..Len(m) : m[i].qty > 0

\* the session is Composing: its map has at least one entry with qty > 0
Composing == HasPositive(qty_map)

\* C12 as stated, with Idle the empty map: a clear, or an edit that takes the
\* last positive quantity back to 0, leaves the session with an empty map.
C12_IdleIsEmptyMap ==
    [][(Composing /\ ev'.op \in {"clear", "edit"} /\ ~Composing') => qty_map' = <<>>]_vars

\* what a step does to the state of the session: a clear starts in Composing
\* and empties the map, an edit that ends Composing leaves zero entries in the
\* map, and only an edit leaves Idle
SessionStep ==
    /\ ev'.op = "clear" => (Composing /\ qty_map' = <<>>)
    /\ (Composing /\ ev'.op = "edit" /\ ~Composing') => qty_map' # <<>>
    /\ (~Composing /\ Composing') => ev'.op = "edit"

\* C12: the order session has two states, Idle (no entry with qty > 0: the map
\* is empty or holds only zero entries) and Composing (at least one entry with
\* qty > 0). From every state an edit can set a positive quantity and the
\* session is then Composing; from Composing the clear button is offered and
\* empties the map, and an edit can take the last positive quantity back to
\* 0, which leaves the session Idle with zero entries in its map. No state is
\* terminal: the session can be re-entered indefinitely.
C12_IdleComposing ==
    /\ [][SessionStep]_vars
    /\ [](\E m \in EditResults : HasPositive(m))
    /\ [](Composing => ENABLED ClearOrder)
    /\ [](Composing => \E m \in EditResults : m # <<>> /\ ~HasPositive(m))

\* after an earlier submission the session has been edited back to a map that
\* holds zero entries only
C12_Witness ==
    /\ ev.op = "edit"
    /\ log # <<>>
    /\ qty_map # <<>>
    /\ ~Composing

====
